---- MODULE Spec2Model ----
(***************************************************************************)
(* Model of app.py: the VLESS/Xray launcher for Pterodactyl containers.    *)
(*                                                                         *)
(* One run of main() is modelled: start() with its startup steps, the      *)
(* monitoring loop, cleanup(), and the SIGINT/SIGTERM handler installed by *)
(* setup_signals().  The interpreter runs a signal handler on top of the   *)
(* interrupted code, so control is a stack of frames: frame 1 is main(),   *)
(* every further frame is one invocation of the handler.  The handler ends *)
(* with sys.exit(0), which raises SystemExit in the frame it interrupted.  *)
(*                                                                         *)
(* Strings that the code inspects (environment values, the machine name)   *)
(* are sequences of one-character strings, so that lower(), int() and the  *)
(* comparisons are computed as the code computes them.                     *)
(***************************************************************************)
EXTENDS Integers, Sequences, FiniteSets

\* Number of interrupt signals delivered to the tool in one run.
MaxSignals == 2

\* cleanup(): self.process.wait(timeout=3)
WaitTimeout == 3

\* start(): cdn_port = 443
CdnPort == 443

VARIABLES
    env,            \* os.environ: SERVER_MEMORY, SERVER_IP, SERVER_PORT
    machine,        \* platform.machine()
    stk,            \* control stack: frame 1 is main(), the others are handlers
    process,        \* self.process: 0 for None, else the index of the child it refers to
    children,       \* the Xray processes started so far, in order of launch:
                    \* each is "running", "terminating" (sent SIGTERM) or "exited"
    files,          \* which of the four artifact paths exist
    configFile,     \* content of config.json as written by start()
    is_pterodactyl, \* result of detect_environment(): "unknown", "yes", "no"
    direct_port,    \* start(): direct_port
    server_ip,      \* start(): server_ip (by origin)
    filename,       \* download_xray(): filename
    startResult,    \* what start() returned: "none", "true", "false"
    failedAt,       \* the startup step at which start() returned False
    sigs,           \* signals delivered so far
    hist            \* counters of the operations performed in this run

vars == << env, machine, stk, process, children, files, configFile, is_pterodactyl,
           direct_port, server_ip, filename, startResult, failedAt, sigs, hist >>

------------------------------------------------------------------------------
\* Strings as character sequences

Unset == [set |-> FALSE, val |-> << >>]

Val(s) == [set |-> TRUE, val |-> s]

Digits == << "0", "1", "2", "3", "4", "5", "6", "7", "8", "9" >>

IsDigit(c) == \E i \in 1..10 : Digits[i] = c

DigitVal(c) == (CHOOSE i \in 1..10 : Digits[i] = c) - 1

\* str.lower() on one character
LowerChar(c) ==
    CASE c = "A" -> "a" [] c = "R" -> "r" [] c = "M" -> "m" [] c = "X" -> "x"
      [] c = "D" -> "d" [] c = "H" -> "h" [] c = "C" -> "c" [] c = "V" -> "v"
      [] c = "L" -> "l" [] OTHER -> c

Lower(s) == [i \in 1..Len(s) |-> LowerChar(s[i])]

RECURSIVE StripLeft(_)
StripLeft(s) == IF s # << >> /\ Head(s) = " " THEN StripLeft(Tail(s)) ELSE s

RECURSIVE StripRight(_)
StripRight(s) ==
    IF s # << >> /\ s[Len(s)] = " " THEN StripRight(SubSeq(s, 1, Len(s) - 1)) ELSE s

RECURSIVE DigitsValue(_)
DigitsValue(s) ==
    IF s = << >> THEN 0
    ELSE 10 * DigitsValue(SubSeq(s, 1, Len(s) - 1)) + DigitVal(s[Len(s)])

\* int(str): surrounding blanks are dropped, then an optional sign and one or
\* more decimal digits; anything else raises ValueError (ok = FALSE).
\* (Underscores between digits, which int() also accepts, are not among the
\* inputs and are rejected here.)
ParseInt(s) ==
    LET t    == StripRight(StripLeft(s))
        neg  == t # << >> /\ Head(t) = "-"
        sgn  == t # << >> /\ Head(t) \in {"-", "+"}
        body == IF sgn THEN Tail(t) ELSE t
    IN  IF body # << >> /\ \A i \in 1..Len(body) : IsDigit(body[i])
        THEN [ok |-> TRUE, val |-> IF neg THEN 0 - DigitsValue(body) ELSE DigitsValue(body)]
        ELSE [ok |-> FALSE, val |-> 0]

\* Python truthiness of os.environ.get(key): set and not the empty string
Truthy(v) == v.set /\ v.val # << >>

------------------------------------------------------------------------------
\* Inputs of a run

MemoryInputs == { Unset, Val(<< "6", "4" >>) }

IpInputs == { Unset, Val(<< "0", ".", "0", ".", "0", ".", "0" >>),
              Val(<< "1", "0", ".", "0", ".", "0", ".", "7" >>) }

PortInputs == { Unset, Val(<< >>), Val(<< "0" >>), Val(<< "8", "a" >>),
                Val(<< "2", "5", "0", "0", "0" >>), Val(<< " ", "8", "0" >>) }

MachineInputs == { << "x", "8", "6", "_", "6", "4" >>,
                   << "A", "M", "D", "6", "4" >>,
                   << "x", "6", "4" >>,
                   << "a", "a", "r", "c", "h", "6", "4" >>,
                   << "A", "R", "M", "6", "4" >>,
                   << "a", "r", "m", "v", "7", "l" >> }

------------------------------------------------------------------------------
\* PterodactylDetector.detect_environment

Indicators == { "SERVER_MEMORY", "SERVER_IP", "SERVER_PORT" }

Detected(e) == { k \in Indicators : Truthy(e[k]) }

DetectEnvironment(e) == Cardinality(Detected(e)) > 0

------------------------------------------------------------------------------
\* MinimalXray.download_xray: the artifact for the reported architecture

Str_x86_64 == << "x", "8", "6", "_", "6", "4" >>

Str_x64 == << "x", "6", "4" >>

Str_aarch64 == << "a", "a", "r", "c", "h", "6", "4" >>

Str_arm64 == << "a", "r", "m", "6", "4" >>

\* arch_map without its 'arm64' key
ArchMapNoArm64(m) ==
    CASE m = Str_x86_64  -> "amd64"
      [] m = Str_x64     -> "amd64"
      [] m = Str_aarch64 -> "arm64"
      [] OTHER           -> "amd64"

\* arch_map.get(m, 'amd64')
ArchMap(m) ==
    CASE m = Str_x86_64  -> "amd64"
      [] m = Str_x64     -> "amd64"
      [] m = Str_aarch64 -> "arm64"
      [] m = Str_arm64   -> "arm64"
      [] OTHER           -> "amd64"

ArtifactName(arch) ==
    IF arch = "amd64" THEN "Xray-linux-64.zip" ELSE "Xray-linux-arm64-v8a.zip"

SelectArtifact(m) == ArtifactName(ArchMap(Lower(m)))

------------------------------------------------------------------------------
\* MinimalXray.create_vless_config: the two inbounds (identity, path and
\* domain are the fixed module constants UUID_STR, PATH and DOMAIN)

\* the two ports passed in the wrong order
CreateVlessConfigSwapped(dport, cport) ==
    [ inbounds |->
        << [port |-> cport, listen |-> "0.0.0.0", protocol |-> "vless",
            security |-> "none", path |-> "PATH", host |-> "DOMAIN"],
           [port |-> dport, listen |-> "0.0.0.0", protocol |-> "vless",
            security |-> "tls", path |-> "PATH", host |-> "DOMAIN"] >>,
      outbounds |-> << "freedom" >> ]

CreateVlessConfig(dport, cport) ==
    [ inbounds |->
        << [port |-> dport, listen |-> "0.0.0.0", protocol |-> "vless",
            security |-> "none", path |-> "PATH", host |-> "DOMAIN"],
           [port |-> cport, listen |-> "0.0.0.0", protocol |-> "vless",
            security |-> "tls", path |-> "PATH", host |-> "DOMAIN"] >>,
      outbounds |-> << "freedom" >> ]

NoConfig == [ inbounds |-> << >>, outbounds |-> << >> ]

------------------------------------------------------------------------------
\* Control stack

Artifacts == { "xray.zip", "config.json", "vless_xray_links.txt", "xray" }

Terminal == { "done", "sysexit", "crashed" }

Live == { "running", "terminating" }

Str_0000 == << "0", ".", "0", ".", "0", ".", "0" >>

\* A frame: where it is, and what its cleanup() has seen so far.
Frame(p) == [pc |-> p, waited |-> 0, hadProc |-> FALSE, killed |-> FALSE,
             caught |-> FALSE]

Top == stk[Len(stk)]

InMain == Len(stk) = 1

At(p) == Top.pc = p

Goto(p) == [stk EXCEPT ![Len(stk)].pc = p]

Bump(field) == [hist EXCEPT ![field] = @ + 1]

\* Positions covered by a bare "except:" clause, which also catches SystemExit:
\* the body of the try in get_server_ip, and terminate()/wait() in cleanup.
CaughtAt(p) == p \in { "ip_lookup", "cl_terminate", "cl_wait" }

ExceptTarget(f) ==
    IF f.pc = "ip_lookup" THEN [f EXCEPT !.pc = "ip_except"]
    ELSE [f EXCEPT !.pc = "cl_kill", !.caught = TRUE]

\* SystemExit raised in the top frame of s: it is caught by the innermost
\* enclosing bare except, or unwinds every frame and ends the interpreter.
RECURSIVE Unwind(_)
Unwind(s) ==
    LET n == Len(s)
    IN  IF CaughtAt(s[n].pc) THEN [s EXCEPT ![n] = ExceptTarget(s[n])]
        ELSE IF n = 1 THEN << [s[1] EXCEPT !.pc = "sysexit"] >>
        ELSE Unwind(SubSeq(s, 1, n - 1))

Init ==
    /\ env \in [ SERVER_MEMORY : MemoryInputs, SERVER_IP : IpInputs,
                 SERVER_PORT : PortInputs ]
    /\ machine \in MachineInputs
    /\ stk = << Frame("detect") >>
    /\ process = 0
    /\ children = << >>
    /\ files = { }
    /\ configFile = NoConfig
    /\ is_pterodactyl = "unknown"
    /\ direct_port = 0
    /\ server_ip = "none"
    /\ filename = "none"
    /\ startResult = "none"
    /\ failedAt = "none"
    /\ sigs = 0
    /\ hist = [ downloads |-> 0, downloadsFailed |-> 0, extracts |-> 0, configWrites |-> 0,
                displayRuns |-> 0, exitsDetected |-> 0,
                cleanupsDone |-> 0, handlersDone |-> 0, kills |-> 0 ]

\* The processes of this tool that are live
LiveChildren == { i \in 1..Len(children) : children[i] \in Live }

\* self.process.poll() is not None
Polled == children[process] = "exited"

------------------------------------------------------------------------------
\* start()

\* a failure reported as success: main enters the monitoring loop
ReturnTrueInstead(step) ==
    /\ startResult' = "true"
    /\ failedAt' = step
    /\ stk' = << Frame("mon_sleep") >>

\* "return False" in start(): main prints the failure and calls cleanup()
ReturnFalse(step) ==
    /\ startResult' = "false"
    /\ failedAt' = step
    /\ stk' = << Frame("cl_check") >>

\* an exception nothing catches: it leaves start() and main() with a traceback
Crash == stk' = << Frame("crashed") >>

\* lines 231-235
Detect ==
    /\ InMain /\ At("detect")
    /\ IF DetectEnvironment(env)
       THEN /\ is_pterodactyl' = "yes"
            /\ stk' = Goto("port")
            /\ UNCHANGED << startResult, failedAt >>
       ELSE /\ is_pterodactyl' = "no"
            /\ ReturnFalse("detect")
    /\ UNCHANGED << env, machine, process, children, files, configFile, direct_port,
                    server_ip, filename, sigs, hist >>

\* lines 237-240: int(os.environ.get('SERVER_PORT', 0))
ParsePort ==
    /\ InMain /\ At("port")
    /\ LET p == IF env.SERVER_PORT.set THEN ParseInt(env.SERVER_PORT.val)
                ELSE [ok |-> TRUE, val |-> 0]
       IN  IF ~p.ok
           THEN /\ Crash
                /\ UNCHANGED << direct_port, startResult, failedAt >>
           ELSE /\ direct_port' = p.val
                /\ IF p.val = 0
                   THEN ReturnFalse("port")
                   ELSE /\ stk' = Goto("ip_check")
                        /\ UNCHANGED << startResult, failedAt >>
    /\ UNCHANGED << env, machine, process, children, files, configFile, is_pterodactyl,
                    server_ip, filename, sigs, hist >>

\* get_server_ip, lines 57-59
IpCheck ==
    /\ InMain /\ At("ip_check")
    /\ IF Truthy(env.SERVER_IP) /\ env.SERVER_IP.val # Str_0000
       THEN server_ip' = "env" /\ stk' = Goto("download")
       ELSE server_ip' = server_ip /\ stk' = Goto("ip_lookup")
    /\ UNCHANGED << env, machine, process, children, files, configFile, is_pterodactyl,
                    direct_port, filename, startResult, failedAt, sigs, hist >>

\* get_server_ip, lines 61-66: the lookup answers, or fails and the bare
\* except returns "127.0.0.1"
IpLookup ==
    /\ InMain /\ At("ip_lookup")
    /\ server_ip' \in { "lookup", "127.0.0.1" }
    /\ stk' = Goto("download")
    /\ UNCHANGED << env, machine, process, children, files, configFile, is_pterodactyl,
                    direct_port, filename, startResult, failedAt, sigs, hist >>

\* get_server_ip, lines 65-66, entered with an exception raised inside the try
IpExcept ==
    /\ InMain /\ At("ip_except")
    /\ server_ip' = "127.0.0.1"
    /\ stk' = Goto("download")
    /\ UNCHANGED << env, machine, process, children, files, configFile, is_pterodactyl,
                    direct_port, filename, startResult, failedAt, sigs, hist >>

\* line 248 with "and" for "or": a failed download is followed by extract_xray
DownloadXrayThenExtract ==
    /\ InMain /\ At("download")
    /\ filename' = SelectArtifact(machine)
    /\ \/ /\ files' = files \cup { "xray.zip" }
          /\ hist' = Bump("downloads")
       \/ /\ files' \in { files, files \cup { "xray.zip" } }
          /\ hist' = [hist EXCEPT !.downloads = @ + 1, !.downloadsFailed = @ + 1]
    /\ stk' = Goto("extract")
    /\ UNCHANGED << env, machine, process, children, configFile, is_pterodactyl,
                    direct_port, server_ip, startResult, failedAt, sigs >>

\* download_xray (lines 71-88) and the first operand of line 248.  A failed
\* download may have created xray.zip already.
DownloadXray ==
    /\ InMain /\ At("download")
    /\ filename' = SelectArtifact(machine)
    /\ \/ /\ files' = files \cup { "xray.zip" }
          /\ hist' = Bump("downloads")
          /\ stk' = Goto("extract")
          /\ UNCHANGED << startResult, failedAt >>
       \/ /\ files' \in { files, files \cup { "xray.zip" } }
          /\ hist' = [hist EXCEPT !.downloads = @ + 1, !.downloadsFailed = @ + 1]
          /\ ReturnFalse("download")
    /\ UNCHANGED << env, machine, process, children, configFile, is_pterodactyl,
                    direct_port, server_ip, sigs >>

\* extract_xray (lines 91-130) and the second operand of line 248: the
\* archive is missing (lines 95-97); or the entry is found and moved to
\* ./xray/xray; or no entry is found (lines 119-121, the archive already
\* unlinked); or reading the archive raises (lines 128-130)
ExtractXray ==
    /\ InMain /\ At("extract")
    /\ hist' = Bump("extracts")
    /\ IF "xray.zip" \notin files
       THEN files' = files /\ ReturnFalse("extract")
       ELSE \/ /\ files' = (files \ { "xray.zip" }) \cup { "xray" }
               /\ stk' = Goto("xray_check")
               /\ UNCHANGED << startResult, failedAt >>
            \/ /\ files' = files \ { "xray.zip" }
               /\ ReturnFalse("extract")
            \/ /\ files' = files
               /\ ReturnFalse("extract")
    /\ UNCHANGED << env, machine, process, children, configFile, is_pterodactyl,
                    direct_port, server_ip, filename, sigs >>

\* lines 251-254
XrayCheck ==
    /\ InMain /\ At("xray_check")
    /\ IF "xray" \in files
       THEN stk' = Goto("config") /\ UNCHANGED << startResult, failedAt >>
       ELSE ReturnFalse("xray_check")
    /\ UNCHANGED << env, machine, process, children, files, configFile, is_pterodactyl,
                    direct_port, server_ip, filename, sigs, hist >>

\* lines 256-261: the write succeeds, or open() raises and nothing catches it
WriteConfig ==
    /\ InMain /\ At("config")
    /\ \/ /\ configFile' = CreateVlessConfig(direct_port, CdnPort)
          /\ files' = files \cup { "config.json" }
          /\ hist' = Bump("configWrites")
          /\ stk' = Goto("display")
       \/ /\ Crash
          /\ UNCHANGED << configFile, files, hist >>
    /\ UNCHANGED << env, machine, process, children, is_pterodactyl, direct_port,
                    server_ip, filename, startResult, failedAt, sigs >>

\* line 263 and display_info (lines 286-322)
DisplayInfo ==
    /\ InMain /\ At("display")
    /\ hist' = Bump("displayRuns")
    /\ \/ /\ files' = files \cup { "vless_xray_links.txt" }
          /\ stk' = Goto("popen")
       \/ /\ Crash
          /\ files' = files
    /\ UNCHANGED << env, machine, process, children, configFile, is_pterodactyl,
                    direct_port, server_ip, filename, startResult, failedAt, sigs >>

\* lines 265-275, the call: the child is started, or Popen raises OSError
Popen ==
    /\ InMain /\ At("popen")
    /\ \/ /\ children' = Append(children, "running")
          /\ stk' = Goto("assign")
       \/ /\ Crash
          /\ UNCHANGED children
    /\ UNCHANGED << env, machine, process, hist, files, configFile, is_pterodactyl,
                    direct_port, server_ip, filename, startResult, failedAt, sigs >>

\* line 270, the assignment: self.process = <the handle Popen returned>
AssignProcess ==
    /\ InMain /\ At("assign")
    /\ process' = Len(children)
    /\ stk' = Goto("grace")
    /\ UNCHANGED << env, machine, children, files, configFile, is_pterodactyl, direct_port,
                    server_ip, filename, startResult, failedAt, sigs, hist >>

\* lines 277-284: time.sleep(2), then the liveness check
GraceCheck ==
    /\ InMain /\ At("grace")
    /\ IF Polled
       THEN ReturnFalse("launch")
       ELSE /\ startResult' = "true"
            /\ failedAt' = failedAt
            /\ stk' = Goto("mon_sleep")
    /\ UNCHANGED << env, machine, process, children, files, configFile, is_pterodactyl,
                    direct_port, server_ip, filename, sigs, hist >>

------------------------------------------------------------------------------
\* main(): the monitoring loop, lines 330-335

\* line 331-332: time.sleep(30); gc.collect(2)
MonitorSleep ==
    /\ InMain /\ At("mon_sleep")
    /\ stk' = Goto("mon_poll")
    /\ UNCHANGED << env, machine, process, children, files, configFile, is_pterodactyl,
                    direct_port, server_ip, filename, startResult, failedAt, sigs, hist >>

\* a supervisor that relaunches the child on a detected exit
MonitorPollRestart ==
    /\ InMain /\ At("mon_poll")
    /\ IF process # 0 /\ Polled
       THEN /\ hist' = Bump("exitsDetected")
            /\ stk' = Goto("popen")
       ELSE /\ hist' = hist
            /\ stk' = Goto("mon_sleep")
    /\ UNCHANGED << env, machine, process, children, files, configFile, is_pterodactyl,
                    direct_port, server_ip, filename, startResult, failedAt, sigs >>

\* lines 333-335: on a detected exit the loop is left and main calls cleanup()
MonitorPoll ==
    /\ InMain /\ At("mon_poll")
    /\ IF process # 0 /\ Polled
       THEN /\ hist' = Bump("exitsDetected")
            /\ stk' = << Frame("cl_check") >>
       ELSE /\ hist' = hist
            /\ stk' = Goto("mon_sleep")
    /\ UNCHANGED << env, machine, process, children, files, configFile, is_pterodactyl,
                    direct_port, server_ip, filename, startResult, failedAt, sigs >>

------------------------------------------------------------------------------
\* cleanup(), lines 203-221, run by main (frame 1) or by a handler frame

\* line 204
CleanupCheck ==
    /\ At("cl_check")
    /\ stk' = [stk EXCEPT ![Len(stk)] =
                 IF process # 0 THEN [@ EXCEPT !.pc = "cl_terminate", !.hadProc = TRUE]
                 ELSE [@ EXCEPT !.pc = "cl_rm_zip"]]
    /\ UNCHANGED << env, machine, process, children, files, configFile, is_pterodactyl,
                    direct_port, server_ip, filename, startResult, failedAt, sigs, hist >>

\* line 206: terminate() signals the child unless it is known to have exited
CleanupTerminate ==
    /\ At("cl_terminate")
    /\ children' = IF children[process] = "running"
                   THEN [children EXCEPT ![process] = "terminating"]
                   ELSE children
    /\ stk' = Goto("cl_wait")
    /\ UNCHANGED << env, machine, process, files, configFile, is_pterodactyl,
                    direct_port, server_ip, filename, startResult, failedAt, sigs, hist >>

\* a cleanup that gives up after the timeout without kill()
CleanupWaitNoKill ==
    /\ At("cl_wait")
    /\ stk' = [stk EXCEPT ![Len(stk)] =
                 IF Polled THEN [@ EXCEPT !.pc = "cl_rm_zip"]
                 ELSE IF @.waited < WaitTimeout THEN [@ EXCEPT !.waited = @ + 1]
                 ELSE [@ EXCEPT !.pc = "cl_rm_zip"]]
    /\ UNCHANGED << env, machine, process, children, files, configFile, is_pterodactyl,
                    direct_port, server_ip, filename, startResult, failedAt, sigs, hist >>

\* line 207: wait(timeout=3) returns once the child has exited; it lets one
\* time unit pass while the child lives; after the timeout it raises
\* TimeoutExpired, which the bare except turns into kill()
CleanupWait ==
    /\ At("cl_wait")
    /\ stk' = [stk EXCEPT ![Len(stk)] =
                 IF Polled THEN [@ EXCEPT !.pc = "cl_rm_zip"]
                 ELSE IF @.waited < WaitTimeout THEN [@ EXCEPT !.waited = @ + 1]
                 ELSE [@ EXCEPT !.pc = "cl_kill"]]
    /\ UNCHANGED << env, machine, process, children, files, configFile, is_pterodactyl,
                    direct_port, server_ip, filename, startResult, failedAt, sigs, hist >>

\* line 209: kill() signals the child unless it is known to have exited
CleanupKill ==
    /\ At("cl_kill")
    /\ children' = IF children[process] \in Live
                   THEN [children EXCEPT ![process] = "exited"]
                   ELSE children
    /\ hist' = Bump("kills")
    /\ stk' = [stk EXCEPT ![Len(stk)] = [@ EXCEPT !.pc = "cl_rm_zip", !.killed = TRUE]]
    /\ UNCHANGED << env, machine, process, files, configFile, is_pterodactyl,
                    direct_port, server_ip, filename, startResult, failedAt, sigs >>

\* if os.path.exists(f): os.remove(f)
Remove(f, from, to) ==
    /\ At(from)
    /\ files' = files \ { f }
    /\ stk' = Goto(to)
    /\ UNCHANGED << env, machine, process, children, configFile, is_pterodactyl,
                    direct_port, server_ip, filename, startResult, failedAt, sigs, hist >>

\* lines 211-212
CleanupRemoveZip == Remove("xray.zip", "cl_rm_zip", "cl_rm_config")

\* lines 213-214
CleanupRemoveConfig == Remove("config.json", "cl_rm_config", "cl_rm_links")

\* lines 215-216
CleanupRemoveLinks == Remove("vless_xray_links.txt", "cl_rm_links", "cl_rm_xray")

\* lines 218-221, and the return: to main (line 341, then the tool ends) or
\* to the handler (line 197)
CleanupRemoveXray ==
    /\ At("cl_rm_xray")
    /\ files' = files \ { "xray" }
    /\ hist' = Bump("cleanupsDone")
    /\ stk' = Goto(IF InMain THEN "done" ELSE "h_exit")
    /\ UNCHANGED << env, machine, process, children, configFile, is_pterodactyl,
                    direct_port, server_ip, filename, startResult, failedAt, sigs >>

------------------------------------------------------------------------------
\* setup_signals(), lines 193-201

\* SIGINT or SIGTERM is delivered: the handler runs on top of whatever the
\* tool is doing (line 194-196)
Signal ==
    /\ sigs < MaxSignals
    /\ stk[1].pc \notin Terminal
    /\ sigs' = sigs + 1
    /\ stk' = Append(stk, Frame("cl_check"))
    /\ UNCHANGED << env, machine, process, children, files, configFile, is_pterodactyl,
                    direct_port, server_ip, filename, startResult, failedAt, hist >>

\* line 197: sys.exit(0) raises SystemExit in the interrupted code
HandlerExit ==
    /\ ~InMain /\ At("h_exit")
    /\ hist' = Bump("handlersDone")
    /\ stk' = Unwind(SubSeq(stk, 1, Len(stk) - 1))
    /\ UNCHANGED << env, machine, process, children, files, configFile, is_pterodactyl,
                    direct_port, server_ip, filename, startResult, failedAt, sigs >>

------------------------------------------------------------------------------
\* The child process

\* Xray exits by itself, or on the SIGTERM it was sent
ChildExit ==
    /\ \E i \in LiveChildren : children' = [children EXCEPT ![i] = "exited"]
    /\ UNCHANGED << env, machine, stk, process, files, configFile, is_pterodactyl,
                    direct_port, server_ip, filename, startResult, failedAt, sigs, hist >>

------------------------------------------------------------------------------

Next ==
    \/ Detect \/ ParsePort \/ IpCheck \/ IpLookup \/ IpExcept
    \/ DownloadXray \/ ExtractXray \/ XrayCheck \/ WriteConfig \/ DisplayInfo
    \/ Popen \/ AssignProcess \/ GraceCheck
    \/ MonitorSleep \/ MonitorPoll
    \/ CleanupCheck \/ CleanupTerminate \/ CleanupWait \/ CleanupKill
    \/ CleanupRemoveZip \/ CleanupRemoveConfig \/ CleanupRemoveLinks
    \/ CleanupRemoveXray
    \/ Signal \/ HandlerExit
    \/ ChildExit

Spec == Init /\ [][Next]_vars

------------------------------------------------------------------------------
\* Vocabulary of the properties

MainPc == stk[1].pc

Launches == Len(children)

MonitorPcs == { "mon_sleep", "mon_poll" }

CleanupPcs == { "cl_check", "cl_terminate", "cl_wait", "cl_kill", "cl_rm_zip",
                "cl_rm_config", "cl_rm_links", "cl_rm_xray" }

\* positions of a frame behind the try/except of cleanup()
PastTryPcs == { "cl_rm_zip", "cl_rm_config", "cl_rm_links", "cl_rm_xray",
                "h_exit", "done" }

\* the Supervisor's Running state: start() returned True and main is in its loop
Running == InMain /\ MainPc \in MonitorPcs

Str_25000 == << "2", "5", "0", "0", "0" >>

------------------------------------------------------------------------------
\* C1

------------------------------------------------------------------------------
\* C2

\* C2 as stated: whenever the tool has exited (main returned, SystemExit ended
\* it, or an unhandled fault ended it), cleanup() has run to its end and none
\* of the four artifact paths exists.
C2_CleanupOnEveryExit ==
    MainPc \in Terminal => hist.cleanupsDone > 0 /\ files \cap Artifacts = { }

------------------------------------------------------------------------------
\* C3

\* C3 as stated: once a signal handler has run (cleanup inline, then
\* sys.exit), the tool downloads nothing, writes no config, launches no child,
\* and no child process is left running.
C3_HandlerEndsRun ==
    /\ [][ hist.handlersDone > 0 =>
             /\ hist'.downloads = hist.downloads
             /\ hist'.configWrites = hist.configWrites
             /\ Launches' = Launches ]_vars
    /\ [](hist.handlersDone > 0 => LiveChildren = { })

------------------------------------------------------------------------------
\* C4

\* C4 as stated: at most one child is live in every state, exactly one is live
\* while the tool is Running, and no second child is ever launched.
C4_ExactlyOneLive ==
    /\ Cardinality(LiveChildren) <= 1
    /\ Running => Cardinality(LiveChildren) = 1
    /\ Launches <= 1

\* C4 amended: at most one child is live in every state and at most one is
\* ever launched; while the tool is Running exactly one child has been launched
\* and self.process refers to it, and it is live unless it has exited by itself
\* and the next poll has not detected that yet.
C4_AtMostOneLive ==
    /\ Cardinality(LiveChildren) <= 1
    /\ Launches <= 1
    /\ Running => /\ Launches = 1 /\ process = 1
                  /\ children[1] \in { "running", "exited" }

C4_Witness == Running /\ LiveChildren = { 1 }

------------------------------------------------------------------------------
\* C5

NoIndicatorSet == \A k \in Indicators : ~env[k].set

\* C5: with none of SERVER_MEMORY, SERVER_IP, SERVER_PORT set, start() never
\* returns success, it has returned failure as soon as main is past it, and no
\* download, extraction, config write or child launch happens in the run.
C5_NoHostNoStart ==
    NoIndicatorSet =>
        /\ startResult # "true"
        /\ MainPc \notin { "detect", "sysexit" } => startResult = "false"
        /\ MainPc \notin MonitorPcs
        /\ hist.downloads = 0 /\ hist.extracts = 0 /\ hist.configWrites = 0
        /\ Launches = 0
        /\ files = { }

C5_Witness == NoIndicatorSet /\ startResult = "false" /\ MainPc = "done"

------------------------------------------------------------------------------
\* C6

\* C6 as stated: display_info runs at most once, only when the child has been
\* started, and never in a run whose child launch fails.
C6_PresenterAfterLaunch ==
    /\ hist.displayRuns <= 1
    /\ hist.displayRuns > 0 => Launches > 0
    /\ failedAt = "launch" => hist.displayRuns = 0

------------------------------------------------------------------------------
\* C7

\* C7: in every cleanup() that found a process handle, kill() is called only
\* after the 3-unit wait ran out or terminate()/wait() raised; and once that
\* cleanup is past its try/except (so also when it returns) the child has
\* exited: either wait() saw it exit or kill() was called.
C7_TerminateThenKill ==
    \A i \in 1..Len(stk) :
        LET f == stk[i]
        IN  /\ (f.pc = "cl_kill" \/ f.killed) =>
                   f.hadProc /\ (f.caught \/ f.waited = WaitTimeout)
            /\ (f.hadProc /\ f.pc \in PastTryPcs) => children[process] = "exited"
            /\ (f.hadProc /\ f.pc \in PastTryPcs /\ ~f.killed) => ~f.caught

C7_Witness ==
    /\ ~InMain /\ At("h_exit")
    /\ Top.hadProc /\ Top.killed /\ ~Top.caught /\ Top.waited = WaitTimeout
    /\ children[process] = "exited"

------------------------------------------------------------------------------
\* C8

\* C8: each startup step runs at most once; after a failed download there is
\* no extraction, config write or launch; after a failed extraction no config
\* write or launch; after a failed liveness check no second launch; and once
\* start() has returned failure main is only ever in cleanup or stopped, never
\* in the monitoring loop, and it stops only after cleanup has run.
C8_NoRetry ==
    /\ hist.downloads <= 1 /\ hist.extracts <= 1 /\ Launches <= 1
    /\ hist.downloadsFailed > 0 =>
          /\ failedAt = "download"
          /\ hist.extracts = 0 /\ hist.configWrites = 0 /\ Launches = 0
    /\ failedAt \in { "extract", "xray_check" } =>
          hist.configWrites = 0 /\ Launches = 0
    /\ failedAt = "launch" => Launches = 1 /\ children[1] = "exited"
    /\ startResult = "false" => MainPc \in CleanupPcs \cup { "done", "sysexit" }
    /\ (startResult = "false" /\ MainPc = "done") => hist.cleanupsDone > 0

C8_Witness == hist.downloadsFailed = 1 /\ MainPc = "done"

------------------------------------------------------------------------------
\* C9

\* C9: the artifact selected is one of the two known names; x86_64 and x64 in
\* any letter case select Xray-linux-64.zip, aarch64 and arm64 in any letter
\* case select Xray-linux-arm64-v8a.zip, every other name the default
\* Xray-linux-64.zip.
C9_ArtifactSelection ==
    filename # "none" =>
        LET m == Lower(machine)
        IN  /\ filename \in { "Xray-linux-64.zip", "Xray-linux-arm64-v8a.zip" }
            /\ m \in { Str_x86_64, Str_x64 } => filename = "Xray-linux-64.zip"
            /\ m \in { Str_aarch64, Str_arm64 } => filename = "Xray-linux-arm64-v8a.zip"
            /\ m \notin { Str_x86_64, Str_x64, Str_aarch64, Str_arm64 } =>
                   filename = "Xray-linux-64.zip"
            /\ machine = << "A", "R", "M", "6", "4" >> =>
                   filename = "Xray-linux-arm64-v8a.zip"

C9_Witness ==
    machine = << "A", "R", "M", "6", "4" >> /\ filename = "Xray-linux-arm64-v8a.zip"

------------------------------------------------------------------------------
\* C10

\* C10: detection succeeds exactly when one of the three variables is set to
\* a value; a download or a launch happens only with SERVER_PORT set and
\* parsed to a nonzero integer; the config written has that port in its
\* first inbound and 443 in its second; and a detected host with SERVER_PORT
\* unset or 0 makes start() return failure at the port check, before any
\* download.
C10_PortGate ==
    LET p == ParseInt(env.SERVER_PORT.val)
    IN  /\ is_pterodactyl # "unknown" =>
              (is_pterodactyl = "yes" <=> \E k \in Indicators : Truthy(env[k]))
        /\ (hist.downloads > 0 \/ Launches > 0) =>
              /\ env.SERVER_PORT.set /\ p.ok /\ p.val # 0
              /\ direct_port = p.val
        /\ hist.configWrites > 0 =>
              /\ Len(configFile.inbounds) = 2
              /\ configFile.inbounds[1].port = p.val
              /\ configFile.inbounds[2].port = 443
              /\ env.SERVER_PORT.val = Str_25000 => configFile.inbounds[1].port = 25000
        /\ ( /\ is_pterodactyl = "yes"
             /\ ~env.SERVER_PORT.set \/ (p.ok /\ p.val = 0)
             /\ MainPc \notin { "port", "sysexit" } ) =>
              /\ startResult = "false" /\ failedAt = "port"
              /\ hist.downloads = 0 /\ Launches = 0

C10_Witness ==
    /\ hist.configWrites > 0 /\ Launches = 1
    /\ env.SERVER_PORT.val = Str_25000
    /\ ~env.SERVER_MEMORY.set /\ ~env.SERVER_IP.set

====
